---- MODULE Spec2Model ----
(***************************************************************************)
(* NutriBot: the per-user conversation state machine of src/main.py, the   *)
(* persistence operations of src/database_handler.py it calls, and the     *)
(* daily broadcast job with its donation policy.                           *)
(*                                                                         *)
(* A text message is a sequence of atoms.  An atom is one character        *)
(* (" ", "/", "-", "+", "_", ".", a digit) or a run of letters written as  *)
(* one string ("start", "apple", "[camera]" for the camera emoji).         *)
(***************************************************************************)
EXTENDS Integers, Sequences, FiniteSets, Bags, TLC

\* ------------------------------------------------------------------ bounds
MaxDay == 1
MaxEntries == 3
MaxJobs == 2
MaxPolicyDay == 16
MaxPool == 2

\* --------------------------------------------------------------- constants
NULL == -1
INT_MAX == 2147483647
Users == {1, 2}
Langs == {"en", "ru"}
NoRow == "no_row"
Idle == "idle"
awaiting_food_text == "awaiting_food_text"
awaiting_calories == "awaiting_calories"
SessionStates == {Idle, awaiting_food_text, awaiting_calories}

\* ---------------------------------------------------------- text functions
Digits == {"0", "1", "2", "3", "4", "5", "6", "7", "8", "9"}

IsDigit(c) == c \in Digits

DigitVal(c) ==
    CASE c = "0" -> 0 [] c = "1" -> 1 [] c = "2" -> 2 [] c = "3" -> 3
      [] c = "4" -> 4 [] c = "5" -> 5 [] c = "6" -> 6 [] c = "7" -> 7
      [] c = "8" -> 8 [] c = "9" -> 9

IsSpace(c) == c = " "

RECURSIVE LStrip(_)
LStrip(s) == IF s # <<>> /\ IsSpace(Head(s)) THEN LStrip(Tail(s)) ELSE s

RECURSIVE RStrip(_)
RStrip(s) ==
    IF s # <<>> /\ IsSpace(s[Len(s)]) THEN RStrip(SubSeq(s, 1, Len(s) - 1)) ELSE s

Strip(s) == RStrip(LStrip(s))

\* str.split(): the number of maximal runs of non-whitespace atoms
WordCount(s) ==
    Cardinality({i \in 1..Len(s) :
                    /\ ~IsSpace(s[i])
                    /\ (i = 1 \/ IsSpace(s[i - 1]))})

\* the first whitespace-delimited word of s
RECURSIVE TakeWord(_)
TakeWord(s) ==
    IF s = <<>> \/ IsSpace(Head(s)) THEN <<>> ELSE <<Head(s)>> \o TakeWord(Tail(s))

has_numbers(s) == \E i \in 1..Len(s) : IsDigit(s[i])

startswith_slash(s) == s # <<>> /\ Head(s) = "/"

\* the digits of an int() literal body: digits, single underscores between them
DigitBodyOk(b) ==
    /\ b # <<>>
    /\ \A i \in 1..Len(b) : IsDigit(b[i]) \/ b[i] = "_"
    /\ IsDigit(b[1]) /\ IsDigit(b[Len(b)])
    /\ \A i \in 1..(Len(b) - 1) : ~(b[i] = "_" /\ b[i + 1] = "_")

RECURSIVE DigitsValue(_, _)
DigitsValue(b, acc) ==
    IF b = <<>> THEN acc
    ELSE IF Head(b) = "_" THEN DigitsValue(Tail(b), acc)
    ELSE DigitsValue(Tail(b), 10 * acc + DigitVal(Head(b)))

\* Python int(str): ok = FALSE stands for ValueError
ParseInt(s) ==
    LET t == Strip(s)
        signed == t # <<>> /\ Head(t) \in {"+", "-"}
        body == IF signed THEN Tail(t) ELSE t
    IN IF DigitBodyOk(body)
       THEN [ok |-> TRUE,
             val |-> IF signed /\ Head(t) = "-"
                     THEN 0 - DigitsValue(body, 0)
                     ELSE DigitsValue(body, 0)]
       ELSE [ok |-> FALSE, val |-> 0]

\* ------------------------------------------------------------ message kinds
AddPhotoEn == <<"[camera]", " ", "Add", " ", "photo">>
AddPhotoRu == <<"[camera]", " ", "Dobavit", " ", "foto">>
AddTextEn == <<"[keyboard]", " ", "Add", " ", "as", " ", "text">>
AddTextRu == <<"[keyboard]", " ", "Dobavit", " ", "tekstom">>
PhotoButtons == {AddPhotoEn, AddPhotoRu}
MenuButtons == {AddPhotoEn, AddPhotoRu, AddTextEn, AddTextRu}
Commands == {<<"start">>, <<"language">>}

\* telebot's command filter: the text starts with "/" and the name after it,
\* up to whitespace or "@", is one of the handler's commands
is_command(s) ==
    /\ startswith_slash(s)
    /\ LET w == Tail(TakeWord(s))
           name == IF \E i \in 1..Len(w) : w[i] = "@"
                   THEN SubSeq(w, 1, (CHOOSE i \in 1..Len(w) :
                                         w[i] = "@" /\ \A j \in 1..(i - 1) : w[j] # "@") - 1)
                   ELSE w
       IN name \in Commands

\* the texts the model sends
Texts ==
    { <<"apple">>,
      <<"two", " ", "eggs">>,
      <<"a", "5">>,
      <<"4", "5", "0">>,
      <<" ", "4", "5", "0", " ">>,
      <<"0">>,
      <<"4", ".", "5">>,
      <<"/", "start">>,
      <<"/", "language">>,
      <<"/", "help">>,
      AddPhotoEn,
      AddTextRu }


\* ------------------------------------------------------------------- state
VARIABLES
    state,                  \* StateMemoryStorage: user -> session state
    users,                  \* table users: user -> language, NoRow when absent
    food_diary,             \* table food_diary: bag of [user_id, calories, date]
    first_use_date,         \* table user_stats: user -> date, NULL when no row
    last_donation_prompt,   \* table user_stats: user -> date, NULL when unset
    today,                  \* the calendar date (CURRENT_DATE, datetime.now().date())
    jobs,                   \* registrations of send_daily_summary with the scheduler
    runs_today,             \* broadcast runs started on the current date
    run,                    \* the broadcast run in progress or last finished
    obs,                    \* what the last handled event did (messages, calls)
    ledger,                 \* user -> sum of the calories saved today (bookkeeping)
    last_prompt_sent,       \* user -> date of the last delivered donation prompt
    pool                    \* worker pool: the tasks queued by the polling thread

vars == <<state, users, food_diary, first_use_date, last_donation_prompt, today,
          jobs, runs_today, run, obs, ledger, last_prompt_sent, pool>>

db_vars == <<users, food_diary, first_use_date, last_donation_prompt>>
sched_vars == <<jobs, runs_today, run>>

\* sent: the messages handed to the outbound send; failed: the call that raised
\* text: the inbound text, <<>> when the event carries none
Obs(handler, user, text, lang, sent, analysis, failed, calories, total) ==
    [handler |-> handler, user |-> user, text |-> text, lang |-> lang, sent |-> sent,
     analysis |-> analysis, failed |-> failed, calories |-> calories, total |-> total]

\* an event's faults: the first call of the handler's try block that raises
\* ("none": no call raises) and whether the language lookup raises
Faults(points) == [at : points \cup {"none"}, lang_down : BOOLEAN]

\* the same with the language lookup working
At(points) == [at : points \cup {"none"}, lang_down : {FALSE}]

\* ------------------------------------------------------ persistence gateway
get_user_language(u) == IF users[u] = NoRow THEN "en" ELSE users[u]

\* faulty variant: the lookup's exception is not caught
get_user_language_unsafe(u, down) == IF down THEN "raise" ELSE get_user_language(u)

\* try: db.get_user_language; except: return 'en'
get_user_language_safe(u, down) == IF down THEN "en" ELSE get_user_language(u)

\* faulty variant: INSERT ... ON CONFLICT (user_id) DO NOTHING
save_user_language_do_nothing(u, lang) ==
    [users EXCEPT ![u] = IF @ = NoRow THEN lang ELSE @]

\* INSERT INTO users ... ON CONFLICT (user_id) DO UPDATE SET language
save_user_language(u, lang) == [users EXCEPT ![u] = lang]

\* INSERT ... ON CONFLICT DO NOTHING; user_stats.user_id references users
first_use_raises(u, f) == f.at = "first_use" \/ users[u] = NoRow

\* faulty variant: INSERT ... ON CONFLICT (user_id) DO UPDATE SET first_use_date
save_user_first_use_do_update(u) == [first_use_date EXCEPT ![u] = today]

save_user_first_use(u) ==
    [first_use_date EXCEPT ![u] = IF @ = NULL THEN today ELSE @]

InInt32(n) == n >= 0 - INT_MAX - 1 /\ n <= INT_MAX

\* INSERT INTO food_diary; calories INTEGER, user_id references users
save_raises(u, calories, f) ==
    f.at = "save" \/ users[u] = NoRow \/ ~InInt32(calories)

\* faulty variant: the INSERT is never committed
save_food_entry_no_commit(u, calories) == food_diary

save_food_entry(u, calories) ==
    food_diary (+) SetToBag({[user_id |-> u, calories |-> calories, date |-> today]})

RECURSIVE SumCalories(_, _)
SumCalories(S, B) ==
    IF S = {} THEN 0
    ELSE LET e == CHOOSE x \in S : TRUE
         IN e.calories * CopiesIn(e, B) + SumCalories(S \ {e}, B)

\* faulty variant: the query without "AND date = CURRENT_DATE"
get_daily_summary_any_date(diary, u) ==
    LET rows == {e \in BagToSet(diary) : e.user_id = u}
    IN [e \in rows |-> diary[e]]

\* SELECT calories, time FROM food_diary WHERE user_id = u AND date = CURRENT_DATE
get_daily_summary(diary, u) ==
    LET rows == {e \in BagToSet(diary) : e.user_id = u /\ e.date = today}
    IN [e \in rows |-> diary[e]]

total_calories(diary, u) ==
    LET rows == get_daily_summary(diary, u)
    IN SumCalories(BagToSet(rows), rows)

\* SELECT user_id, SUM(calories) ... WHERE date = CURRENT_DATE GROUP BY user_id
get_all_daily_summaries ==
    {<<u, total_calories(food_diary, u)>> :
        u \in {e.user_id : e \in {x \in BagToSet(food_diary) : x.date = today}}}

\* faulty variant: the weekly cadence starts on day 7 (>= 7 for > 7)
ShouldPrompt_from_day_7(first_use, last_prompt, now) ==
    IF first_use = NULL THEN FALSE
    ELSE LET days_since_first_use == now - first_use
         IN IF days_since_first_use = 1 THEN TRUE
            ELSE IF days_since_first_use >= 7
                 THEN last_prompt = NULL \/ now - last_prompt >= 7
                 ELSE FALSE

ShouldPrompt(first_use, last_prompt, now) ==
    IF first_use = NULL THEN FALSE
    ELSE LET days_since_first_use == now - first_use
         IN IF days_since_first_use = 1 THEN TRUE
            ELSE IF days_since_first_use > 7
                 THEN last_prompt = NULL \/ now - last_prompt >= 7
                 ELSE FALSE

\* a read that raises makes the decision False
should_show_donation_prompt(u, read_down) ==
    IF read_down THEN FALSE
    ELSE ShouldPrompt(first_use_date[u], last_donation_prompt[u], today)

\* UPDATE user_stats SET last_donation_prompt = CURRENT_DATE WHERE user_id = u
update_last_donation_prompt(u) ==
    [last_donation_prompt EXCEPT ![u] = IF first_use_date[u] = NULL THEN @ ELSE today]

\* ------------------------------------------------------------------ routing
\* faulty variant: the state handlers registered before the command handler
Route_states_first(u, text) ==
    IF state[u] = awaiting_food_text THEN "handle_food_text"
    ELSE IF state[u] = awaiting_calories THEN "handle_calories"
    ELSE IF is_command(text) THEN "send_welcome"
    ELSE IF ~startswith_slash(text) /\ text \notin MenuButtons THEN "handle_message"
    ELSE IF text \in MenuButtons THEN "handle_input_choice"
    ELSE "unhandled"

\* the first handler, in registration order, whose filters accept the text
Route(u, text) ==
    IF is_command(text) THEN "send_welcome"
    ELSE IF ~startswith_slash(text) /\ text \notin MenuButtons /\ state[u] = Idle
         THEN "handle_message"
    ELSE IF text \in MenuButtons THEN "handle_input_choice"
    ELSE IF state[u] = awaiting_food_text THEN "handle_food_text"
    ELSE IF state[u] = awaiting_calories THEN "handle_calories"
    ELSE "unhandled"


\* ------------------------------------------------------ conversation router
FlowPoints == {"first_use", "send", "analysis", "send2"}

\* the step of the try block of handle_photo / handle_food_text that raised
FlowFailed(u, f) == IF first_use_raises(u, f) THEN "first_use" ELSE f.at

\* the analysis collaborator is called once the first reply went out
FlowAnalysis(u, f) == FlowFailed(u, f) \in {"none", "analysis", "send2"}

\* the messages handed to the outbound send, and those whose send raised
FlowSent(u, f, first) ==
    LET failed == FlowFailed(u, f)
    IN CASE failed = "none" -> {first, "nutritional_values", "save_calories"}
         [] failed = "first_use" -> {"error"}
         [] failed = "send" -> {first, "error"}
         [] failed = "analysis" -> {first, "error"}
         [] failed = "send2" -> {first, "nutritional_values", "error"}

send_welcome(u, text, f) ==
    /\ Route(u, text) = "send_welcome"
    /\ obs' = Obs("send_welcome", u, text, "en",
                  IF f.at = "send" THEN {"choose_language", "plain_error"}
                                   ELSE {"choose_language"},
                  FALSE, f.at, 0, 0)
    /\ UNCHANGED <<state, db_vars, today, pool, sched_vars, ledger, last_prompt_sent>>

callback_language(u, lang, f) ==
    /\ users' = IF f.at = "save_language" THEN users ELSE save_user_language(u, lang)
    /\ obs' = Obs("callback_language", u, <<>>, lang,
                  CASE f.at = "none" -> {"language_set", "welcome"}
                    [] f.at = "save_language" -> {"callback_error"}
                    [] f.at = "send" -> {"language_set", "callback_error"},
                  FALSE, f.at, 0, 0)
    /\ UNCHANGED <<state, food_diary, first_use_date, last_donation_prompt, today, pool,
                   sched_vars, ledger, last_prompt_sent>>

\* StateMemoryStorage, keyed by the user
set_state(st, u, v) == [st EXCEPT ![u] = v]

\* faulty variant: a storage keyed by nothing, cleared for everybody
delete_state_all(st, u) == [x \in DOMAIN st |-> Idle]

delete_state(st, u) == [st EXCEPT ![u] = Idle]

\* handle_food_text: set_state at the end of the try block, delete_state in except
food_text_state_after(st, u, failed) ==
    IF failed = "none" THEN set_state(st, u, awaiting_calories) ELSE delete_state(st, u)

\* handle_photo: set_state at the end of the try block, the except block sets nothing
photo_state_after(st, u, failed) ==
    IF failed = "none" THEN set_state(st, u, awaiting_calories) ELSE st

\* the body of handle_food_text, run by the dispatcher or by handle_message
food_text_body(u, text, f, handler) ==
    /\ first_use_date' = IF first_use_raises(u, f) THEN first_use_date
                         ELSE save_user_first_use(u)
    /\ state' = food_text_state_after(state, u, FlowFailed(u, f))
    /\ obs' = Obs(handler, u, text, get_user_language_safe(u, f.lang_down),
                  FlowSent(u, f, "analyzing_text"),
                  FlowAnalysis(u, f), FlowFailed(u, f), 0, 0)
    /\ UNCHANGED <<users, food_diary, last_donation_prompt, today, pool, sched_vars,
                   ledger, last_prompt_sent>>

\* faulty variant: "and" for "or"
is_food_both(text) == WordCount(text) > 1 /\ has_numbers(text)

is_food(text) == WordCount(text) > 1 \/ has_numbers(text)

handle_message(u, text, f) ==
    /\ Route(u, text) = "handle_message"
    /\ IF is_food(text)
       THEN food_text_body(u, text, f, "handle_message")
       ELSE /\ f.at \in {"none", "send"}
            /\ obs' = Obs("handle_message", u, text, get_user_language_safe(u, f.lang_down),
                          {"welcome"},
                          FALSE, f.at, 0, 0)
            /\ UNCHANGED <<state, db_vars, today, pool, sched_vars, ledger, last_prompt_sent>>

\* faulty variant: the photo branch without its delete_state
input_choice_state_after_keeps(st, u, text) ==
    IF text \in PhotoButtons THEN st ELSE set_state(st, u, awaiting_food_text)

\* handle_input_choice: the state call comes before the reply
input_choice_state_after(st, u, text) ==
    IF text \in PhotoButtons THEN delete_state(st, u)
    ELSE set_state(st, u, awaiting_food_text)

handle_input_choice(u, text, f) ==
    /\ Route(u, text) = "handle_input_choice"
    /\ state' = input_choice_state_after(state, u, text)
    /\ LET kind == IF text \in PhotoButtons THEN "send_photo" ELSE "text_input"
       IN obs' = Obs("handle_input_choice", u, text, get_user_language_safe(u, f.lang_down),
                     {kind}, FALSE, f.at, 0, 0)
    /\ UNCHANGED <<db_vars, today, pool, sched_vars, ledger, last_prompt_sent>>

\* faulty variant: the dismissal ends the open flow
continue_free_state_after_clears(st, u) == delete_state(st, u)

\* handle_continue_free answers the callback and deletes the prompt message;
\* it makes no state call
continue_free_state_after(st, u) == st

handle_continue_free(u, f) ==
    /\ state' = continue_free_state_after(state, u)
    /\ obs' = Obs("handle_continue_free", u, <<>>, "en", {}, FALSE, f.at, 0, 0)
    /\ UNCHANGED <<db_vars, today, pool, sched_vars, ledger, last_prompt_sent>>

handle_photo(u, f) ==
    /\ first_use_date' = IF first_use_raises(u, f) THEN first_use_date
                         ELSE save_user_first_use(u)
    /\ state' = photo_state_after(state, u, FlowFailed(u, f))
    /\ obs' = Obs("handle_photo", u, <<>>, get_user_language_safe(u, f.lang_down),
                  FlowSent(u, f, "analyzing"),
                  FlowAnalysis(u, f), FlowFailed(u, f), 0, 0)
    /\ UNCHANGED <<users, food_diary, last_donation_prompt, today, pool, sched_vars,
                   ledger, last_prompt_sent>>

handle_food_text(u, text, f) ==
    /\ Route(u, text) = "handle_food_text"
    /\ food_text_body(u, text, f, "handle_food_text")

CaloriesPoints == {"save", "summary", "send"}

\* the step of handle_calories' try block that raised
CaloriesFailed(u, text, f) ==
    LET p == ParseInt(text)
    IN IF ~p.ok THEN "ValueError"
       ELSE IF save_raises(u, p.val, f) THEN "save"
       ELSE f.at

\* faulty variant: the state is cleared on every outcome, as handle_food_text does
calories_state_after_clears(st, u, failed) == delete_state(st, u)

\* handle_calories: delete_state is the last call of the try block
calories_state_after(st, u, failed) ==
    IF failed = "none" THEN delete_state(st, u) ELSE st

\* the body of handle_calories, run by a worker thread of the pool
handle_calories_body(u, text, f) ==
    /\ LET p == ParseInt(text)
           failed == CaloriesFailed(u, text, f)
           saved == failed \in {"none", "summary", "send"}
           diary == IF saved THEN save_food_entry(u, p.val) ELSE food_diary
           total == IF failed \in {"none", "send"} THEN total_calories(diary, u) ELSE 0
       IN /\ saved => BagCardinality(food_diary) < MaxEntries
          /\ food_diary' = diary
          /\ ledger' = IF saved THEN [ledger EXCEPT ![u] = @ + p.val] ELSE ledger
          /\ state' = calories_state_after(state, u, failed)
          /\ obs' = Obs("handle_calories", u, text, get_user_language_safe(u, f.lang_down),
                        CASE failed = "none" -> {"calories_added"}
                          [] failed = "ValueError" -> {"invalid_calories"}
                          [] failed = "send" -> {"calories_added", "unexpected_error"}
                          [] OTHER -> {"unexpected_error"},
                        FALSE, failed, IF p.ok THEN p.val ELSE 0, total)
    /\ UNCHANGED <<users, first_use_date, last_donation_prompt, today, sched_vars,
                   last_prompt_sent>>

\* the message is tested against the filters and handled before the next one
handle_calories(u, text, f) ==
    /\ Route(u, text) = "handle_calories"
    /\ handle_calories_body(u, text, f)
    /\ UNCHANGED pool

\* the bot is created with the library's default, threaded dispatch: the polling
\* thread tests a message against the handlers' filters, queues the handler
\* for a worker thread and goes on to the next message of the batch
queue_handle_calories(u, text) ==
    /\ Len(pool) < MaxPool
    /\ Route(u, text) = "handle_calories"
    /\ pool' = Append(pool, [user |-> u, text |-> text])
    /\ obs' = Obs("queue_handle_calories", u, text, "en", {}, FALSE, "none", 0, 0)
    /\ UNCHANGED <<state, db_vars, today, sched_vars, ledger, last_prompt_sent>>

\* a worker thread runs the queued handler; the filters are not tested again
run_handle_calories(f) ==
    /\ pool # <<>>
    /\ handle_calories_body(Head(pool).user, Head(pool).text, f)
    /\ pool' = Tail(pool)

\* a text no handler's filters accept is dropped
unhandled(u, text) ==
    /\ Route(u, text) = "unhandled"
    /\ obs' = Obs("unhandled", u, text, "en", {}, FALSE, "none", 0, 0)
    /\ UNCHANGED <<state, db_vars, today, pool, sched_vars, ledger, last_prompt_sent>>


\* ------------------------------------------------------ broadcast scheduler
\* rows: the result of the grouped query; queue: the rows still to be processed;
\* served: the users whose summary or no-entries message was sent; faulted: the
\* users whose iteration raised; prompted: the users sent the donation prompt
NoRun == [active |-> FALSE, fetched |-> FALSE, queue |-> <<>>, rows |-> <<>>,
          served |-> {}, faulted |-> {}, prompted |-> {}]

\* the orders in which the rows of a query without ORDER BY may come back
Orderings(S) ==
    {q \in [1..Cardinality(S) -> S] : \A i, j \in 1..Cardinality(S) : i # j => q[i] # q[j]}

\* faulty variant: no try/except around the query
send_daily_summary_raises_fetch(fetch_down) == fetch_down

\* the outer try/except of send_daily_summary logs every exception
send_daily_summary_raises(fetch_down) == FALSE

\* schedule_checker: its except is outside the while loop, so an exception
\* leaving a job ends the loop of the scheduler thread that ran it; when that
\* was the only thread, nothing calls run_pending again
schedule_checker_after(n, raised) == IF raised /\ n = 1 THEN 0 ELSE n

\* send_daily_summary up to the loop: the grouped query; a run per registered job
send_daily_summary_begin(fetch_down, q) ==
    /\ ~run.active
    /\ runs_today < jobs
    /\ q \in Orderings(get_all_daily_summaries)
    /\ runs_today' = runs_today + 1
    /\ jobs' = schedule_checker_after(jobs, send_daily_summary_raises(fetch_down))
    /\ run' = IF fetch_down THEN NoRun
              ELSE [NoRun EXCEPT !.active = q # <<>>, !.fetched = TRUE, !.queue = q,
                                 !.rows = q]
    /\ obs' = Obs("send_daily_summary_begin", 0, <<>>, "en", {}, FALSE,
                  IF fetch_down THEN "fetch" ELSE "none", 0, 0)
    /\ UNCHANGED <<state, db_vars, today, pool, ledger, last_prompt_sent>>

BroadcastPoints == {"generate", "send", "send_prompt", "update"}

SummaryKind(total) == IF total # 0 THEN "daily_summary" ELSE "no_entries"

\* the summary part of the loop body raised
SummaryRaised(total, f) == (total # 0 /\ f.at = "generate") \/ f.at = "send"

PromptDue(u, total, f, policy_down) ==
    ~SummaryRaised(total, f) /\ should_show_donation_prompt(u, policy_down)

PromptDelivered(u, total, f, policy_down) ==
    PromptDue(u, total, f, policy_down) /\ f.at # "send_prompt"

\* faulty variant: the date is recorded before the prompt is sent
PromptRecorded_before_send(u, total, f, policy_down) ==
    PromptDue(u, total, f, policy_down) /\ f.at # "update"

PromptRecorded(u, total, f, policy_down) ==
    PromptDelivered(u, total, f, policy_down) /\ f.at # "update"

BroadcastFailed(u, total, f, policy_down) ==
    IF SummaryRaised(total, f) THEN f.at
    ELSE IF PromptDue(u, total, f, policy_down) /\ f.at \in {"send_prompt", "update"}
         THEN f.at
    ELSE "none"

\* faulty variant: one try/except around the whole loop
remaining_after_abort(queue, failed) == IF failed = "none" THEN Tail(queue) ELSE <<>>

\* the try/except is inside the loop: after an exception the loop goes on
remaining_after(queue, failed) == Tail(queue)

\* one iteration of the loop of send_daily_summary, with its own try/except
send_daily_summary_user(f, policy_down) ==
    /\ run.active
    /\ LET u == Head(run.queue)[1]
           total == Head(run.queue)[2]
           kind == SummaryKind(total)
           generated == total # 0 /\ f.at # "generate"
           tried == IF total # 0 /\ f.at = "generate" THEN {} ELSE {kind}
           due == PromptDue(u, total, f, policy_down)
           failed == BroadcastFailed(u, total, f, policy_down)
       IN /\ last_donation_prompt' =
                IF PromptRecorded(u, total, f, policy_down)
                THEN update_last_donation_prompt(u) ELSE last_donation_prompt
          /\ last_prompt_sent' =
                IF PromptDelivered(u, total, f, policy_down)
                THEN [last_prompt_sent EXCEPT ![u] = today] ELSE last_prompt_sent
          /\ run' = [run EXCEPT
                        !.queue = remaining_after(@, failed),
                        !.active = remaining_after(run.queue, failed) # <<>>,
                        !.served = IF tried # {} /\ f.at # "send" THEN @ \cup {u} ELSE @,
                        !.faulted = IF failed # "none" THEN @ \cup {u} ELSE @,
                        !.prompted = IF PromptDelivered(u, total, f, policy_down)
                                     THEN @ \cup {u} ELSE @]
          /\ obs' = Obs("send_daily_summary", u, <<>>, get_user_language_safe(u, f.lang_down),
                        tried \cup (IF due THEN {"donation_prompt"} ELSE {}),
                        total # 0, failed, 0, total)
    /\ UNCHANGED <<state, users, food_diary, first_use_date, today, pool, jobs, runs_today,
                   ledger>>

\* main() after an unhandled failure of the run loop: sleep, then main() again,
\* which registers the daily job once more and starts another scheduler thread;
\* a job registered after today's run time is first due on the next date, as
\* one registered after midnight is
main_restart ==
    /\ jobs < MaxJobs
    /\ runs_today = 0
    /\ jobs' = jobs + 1
    /\ obs' = Obs("main", 0, <<>>, "en", {}, FALSE, "polling", 0, 0)
    /\ UNCHANGED <<state, db_vars, today, pool, runs_today, run, ledger, last_prompt_sent>>

\* midnight
next_day ==
    /\ today < MaxDay
    /\ ~run.active
    /\ today' = today + 1
    /\ runs_today' = 0
    /\ ledger' = [u \in Users |-> 0]
    /\ obs' = Obs("next_day", 0, <<>>, "en", {}, FALSE, "none", 0, 0)
    /\ UNCHANGED <<state, db_vars, jobs, run, pool, last_prompt_sent>>

\* ------------------------------------------------------------ specification
Init ==
    /\ state = [u \in Users |-> Idle]
    /\ users = [u \in Users |-> NoRow]
    /\ food_diary = EmptyBag
    /\ first_use_date = [u \in Users |-> NULL]
    /\ last_donation_prompt = [u \in Users |-> NULL]
    /\ today = 0
    /\ jobs = 1
    /\ runs_today = 0
    /\ run = NoRun
    /\ obs = Obs("init", 0, <<>>, "en", {}, FALSE, "none", 0, 0)
    /\ ledger = [u \in Users |-> 0]
    /\ last_prompt_sent = [u \in Users |-> NULL]
    /\ pool = <<>>

\* the conversation router alone, one user, every text and every fault
NextRouter ==
    \/ \E text \in Texts, f \in At({"send"}) : send_welcome(1, text, f)
    \/ \E lang \in Langs, f \in At({"save_language", "send"}) : callback_language(1, lang, f)
    \/ \E text \in Texts, f \in At(FlowPoints) : handle_message(1, text, f)
    \/ \E text \in Texts, f \in At({"send"}) : handle_input_choice(1, text, f)
    \/ \E f \in At(FlowPoints) : handle_photo(1, f)
    \/ \E f \in At({"send"}) : handle_continue_free(1, f)
    \/ \E text \in Texts, f \in At(FlowPoints) : handle_food_text(1, text, f)
    \/ \E text \in Texts, f \in At(CaloriesPoints) : handle_calories(1, text, f)
    \/ \E text \in Texts : unhandled(1, text)
    \/ next_day

SpecRouter == Init /\ [][NextRouter]_vars


\* two users, interleaved: the texts that start, answer, abort and leave a flow
TextsPair ==
    { <<"two", " ", "eggs">>, <<"apple">>, <<"4", "5", "0">>, AddPhotoEn, AddTextRu }

NoFault == [at |-> "none", lang_down |-> FALSE]

NextPair ==
    \/ \E u \in Users : callback_language(u, "en", NoFault)
    \/ \E u \in Users, text \in TextsPair, f \in At({"analysis"}) : handle_message(u, text, f)
    \/ \E u \in Users, text \in TextsPair : handle_input_choice(u, text, NoFault)
    \/ \E u \in Users, f \in At({"analysis"}) : handle_photo(u, f)
    \/ \E u \in Users, text \in TextsPair, f \in At({"analysis"}) : handle_food_text(u, text, f)
    \/ \E u \in Users, text \in TextsPair, f \in At({"save", "send"}) :
          handle_calories(u, text, f)

SpecPair == Init /\ [][NextPair]_vars

\* two users' diaries over the days: the calorie step with its faults
TextsDiary == { <<"apple">>, <<"4", "5", "0">>, <<"-", "5">> }

NextDiary ==
    \/ \E u \in Users : callback_language(u, "en", NoFault)
    \/ \E u \in Users : handle_photo(u, NoFault)
    \/ \E u \in Users, text \in TextsDiary, f \in At(CaloriesPoints) :
          handle_calories(u, text, f)
    \/ next_day

SpecDiary == Init /\ [][NextDiary]_vars

\* the broadcast job over the days: two users who log one meal a day, the
\* restart of main() and every fault of the job
has_entry_today(u) == \E e \in BagToSet(food_diary) : e.user_id = u /\ e.date = today

NextBroadcast ==
    \/ \E u \in Users : callback_language(u, "en", NoFault)
    \/ \E u \in Users : handle_photo(u, NoFault)
    \/ \E u \in Users :
          /\ ~has_entry_today(u)
          /\ handle_calories(u, IF u = 1 THEN <<"4", "5", "0">> ELSE <<"0">>, NoFault)
    \/ \E fetch_down \in BOOLEAN, q \in Orderings(get_all_daily_summaries) :
          send_daily_summary_begin(fetch_down, q)
    \/ \E f \in Faults(BroadcastPoints), policy_down \in BOOLEAN :
          send_daily_summary_user(f, policy_down)
    \/ main_restart
    \/ next_day

SpecBroadcast == Init /\ [][NextBroadcast]_vars

\* the calorie step under the threaded dispatch of the bot
TextsThreaded == { <<"4", "5", "0">>, <<"apple">> }

NextThreaded ==
    \/ \E u \in Users : callback_language(u, "en", NoFault)
    \/ \E u \in Users : handle_photo(u, NoFault)
    \/ \E u \in Users, text \in TextsThreaded : queue_handle_calories(u, text)
    \/ \E f \in At({"send"}) : run_handle_calories(f)

SpecThreaded == Init /\ [][NextThreaded]_vars

\* every reader of the language, with the lookup working or raising
TextsLang == { <<"two", " ", "eggs">>, <<"apple">>, <<"4", "5", "0">>, AddPhotoEn, AddTextRu }

NextLang ==
    \/ \E lang \in Langs : callback_language(1, lang, NoFault)
    \/ \E text \in TextsLang, f \in Faults({"analysis"}) : handle_message(1, text, f)
    \/ \E text \in TextsLang, f \in Faults({"send"}) : handle_input_choice(1, text, f)
    \/ \E f \in Faults({"analysis"}) : handle_photo(1, f)
    \/ \E text \in TextsLang, f \in Faults({"analysis"}) : handle_food_text(1, text, f)
    \/ \E text \in TextsLang, f \in Faults({"save"}) : handle_calories(1, text, f)
    \/ \E q \in Orderings(get_all_daily_summaries) : send_daily_summary_begin(FALSE, q)
    \/ \E f \in Faults({"send"}) : send_daily_summary_user(f, FALSE)

SpecLang == Init /\ [][NextLang]_vars

\* one user's whole life: every handler and the broadcast job over the days
TextsLife ==
    { <<"two", " ", "eggs">>, <<"4", "5", "0">>, <<"/", "start">>, <<"/", "help">>, AddTextRu }

NextLife ==
    \/ \E text \in TextsLife : send_welcome(1, text, NoFault)
    \/ \E f \in At({"save_language"}) : callback_language(1, "ru", f)
    \/ \E text \in TextsLife : handle_message(1, text, NoFault)
    \/ \E text \in TextsLife : handle_input_choice(1, text, NoFault)
    \/ \E f \in At({"first_use", "analysis"}) : handle_photo(1, f)
    \/ handle_continue_free(1, NoFault)
    \/ \E text \in TextsLife, f \in At({"analysis"}) : handle_food_text(1, text, f)
    \/ \E text \in TextsLife, f \in At({"save"}) : handle_calories(1, text, f)
    \/ \E text \in TextsLife : unhandled(1, text)
    \/ \E fetch_down \in BOOLEAN, q \in Orderings(get_all_daily_summaries) :
          send_daily_summary_begin(fetch_down, q)
    \/ \E f \in At(BroadcastPoints), policy_down \in BOOLEAN :
          send_daily_summary_user(f, policy_down)
    \/ next_day

SpecLife == Init /\ [][NextLife]_vars

\* the whole program: every handler, the broadcast job, the restart of main()
AllTexts == Texts \cup TextsPair \cup TextsDiary \cup TextsLife \cup TextsLang

Next ==
    \/ \E u \in Users, text \in AllTexts, f \in Faults({"send"}) : send_welcome(u, text, f)
    \/ \E u \in Users, lang \in Langs, f \in Faults({"save_language", "send"}) :
          callback_language(u, lang, f)
    \/ \E u \in Users, text \in AllTexts, f \in Faults(FlowPoints) : handle_message(u, text, f)
    \/ \E u \in Users, text \in AllTexts, f \in Faults({"send"}) :
          handle_input_choice(u, text, f)
    \/ \E u \in Users, f \in Faults({"send"}) : handle_continue_free(u, f)
    \/ \E u \in Users, f \in Faults(FlowPoints) : handle_photo(u, f)
    \/ \E u \in Users, text \in AllTexts, f \in Faults(FlowPoints) : handle_food_text(u, text, f)
    \/ \E u \in Users, text \in AllTexts, f \in Faults(CaloriesPoints) :
          handle_calories(u, text, f)
    \/ \E u \in Users, text \in AllTexts : unhandled(u, text)
    \/ \E fetch_down \in BOOLEAN, q \in Orderings(get_all_daily_summaries) :
          send_daily_summary_begin(fetch_down, q)
    \/ \E f \in Faults(BroadcastPoints), policy_down \in BOOLEAN :
          send_daily_summary_user(f, policy_down)
    \/ main_restart
    \/ next_day

Spec == Init /\ [][Next]_vars


\* the donation policy as a function of its three inputs
policy_check(u, read_down) ==
    /\ obs' = Obs("should_show_donation_prompt", u, <<>>, "en",
                  IF should_show_donation_prompt(u, read_down)
                  THEN {"donation_prompt"} ELSE {},
                  FALSE, IF read_down THEN "read" ELSE "none", 0, 0)
    /\ UNCHANGED <<state, db_vars, today, pool, sched_vars, ledger, last_prompt_sent>>

PolicyDates == {NULL} \cup 0..MaxPolicyDay

InitPolicy ==
    /\ state = [u \in Users |-> Idle]
    /\ users = [u \in Users |-> "en"]
    /\ food_diary = EmptyBag
    /\ \E d \in PolicyDates : first_use_date = [u \in Users |-> IF u = 1 THEN d ELSE NULL]
    /\ \E d \in PolicyDates :
          last_donation_prompt = [u \in Users |-> IF u = 1 THEN d ELSE NULL]
    /\ today \in 0..MaxPolicyDay
    /\ jobs = 1
    /\ runs_today = 0
    /\ run = NoRun
    /\ obs = Obs("init", 0, <<>>, "en", {}, FALSE, "none", 0, 0)
    /\ ledger = [u \in Users |-> 0]
    /\ last_prompt_sent = [u \in Users |-> NULL]
    /\ pool = <<>>

NextPolicy == \E u \in Users, read_down \in BOOLEAN : policy_check(u, read_down)

SpecPolicy == InitPolicy /\ [][NextPolicy]_vars

\* ------------------------------------------------------------------ claims
TextHandlers == {"send_welcome", "handle_message", "handle_input_choice",
                 "handle_food_text", "handle_calories", "unhandled"}

\* the last event was a text that is neither a command nor a menu button
PlainText(o) ==
    o.handler \in TextHandlers /\ ~is_command(o.text) /\ o.text \notin MenuButtons

\* C1: whenever the analysis collaborator fails in a flow step (a photo in any
\* state, a text in awaiting_food_text, an Idle text classified as food), the
\* user's state after the step is Idle and the error message is reported.
C1_AnalysisFailureResetsToIdle ==
    (obs.handler \in {"handle_photo", "handle_food_text", "handle_message"}
        /\ obs.failed = "analysis")
    => (state[obs.user] = Idle /\ "error" \in obs.sent)

\* C2: from awaiting_calories, a text that does not parse as an integer leaves
\* the state at awaiting_calories, persists no entry and produces the
\* invalid-input message; every such step does, so any number in a row do.
C2_InvalidCaloriesKeepState ==
    [][(PlainText(obs') /\ state[obs'.user] = awaiting_calories
            /\ ~ParseInt(obs'.text).ok)
       => (/\ state'[obs'.user] = awaiting_calories
           /\ food_diary' = food_diary
           /\ obs'.sent = {"invalid_calories"})]_vars

C2_Witness ==
    /\ obs.handler = "handle_calories"
    /\ obs.text = <<"4", ".", "5">>
    /\ obs.failed = "ValueError"
    /\ state[obs.user] = awaiting_calories
    /\ "invalid_calories" \in obs.sent

\* C3: from awaiting_calories, a text that parses as a positive integer n, when
\* the entry is written and the reply with the total is sent, persists exactly
\* one new entry (that user, n calories, today) and leaves the state Idle.
C3_ValidCaloriesSaveOnce ==
    [][(PlainText(obs') /\ state[obs'.user] = awaiting_calories
            /\ ParseInt(obs'.text).ok /\ ParseInt(obs'.text).val > 0
            /\ obs'.failed = "none")
       => (/\ food_diary' = food_diary (+)
                  SetToBag({[user_id |-> obs'.user,
                             calories |-> ParseInt(obs'.text).val,
                             date |-> today]})
           /\ today' = today
           /\ state'[obs'.user] = Idle)]_vars

C3_Witness ==
    /\ obs.handler = "handle_calories"
    /\ obs.text = <<"4", "5", "0">>
    /\ obs.failed = "none"
    /\ state[obs.user] = Idle
    /\ CopiesIn([user_id |-> obs.user, calories |-> 450, date |-> today], food_diary) = 1
    /\ BagCardinality(food_diary) = 1

\* C4: every persisted entry has a positive calories value.
C4_AllCaloriesPositive == \A e \in BagToSet(food_diary) : e.calories > 0


\* C5: the daily total reported after a successful save is the sum of the
\* calories of that user's entries saved on that date; rejected inputs and the
\* entries of other users or other dates do not contribute.
C5_ReportedTotalIsSumOfSaved ==
    (obs.handler = "handle_calories" /\ "calories_added" \in obs.sent)
    => obs.total = ledger[obs.user]

C5_Witness ==
    /\ obs.handler = "handle_calories"
    /\ obs.failed = "none"
    /\ obs.total = 445
    /\ BagCardinality(food_diary) = 3
    /\ \E e \in BagToSet(food_diary) : e.user_id # obs.user \/ e.date # today

\* C10: handling an event of one user never changes the session state of
\* another user.
C10_StatePerUser ==
    [][\A u \in Users : u # obs'.user => state'[u] = state[u]]_vars

C10_Witness ==
    /\ obs.handler = "handle_food_text"
    /\ obs.user = 2
    /\ obs.failed = "analysis"
    /\ state[2] = Idle
    /\ state[1] = awaiting_calories


\* C6: the donation decision equals the reference function of (first_use_date,
\* last_donation_prompt, today): never without a first use, always on the day
\* after the first use, otherwise only after the first week and at least 7 days
\* after the last prompt; and taking the decision writes nothing.
C6_Reference(fud, ldp, now) ==
    /\ fud # NULL
    /\ \/ now - fud = 1
       \/ (now - fud > 7 /\ (ldp = NULL \/ now - ldp >= 7))

C6_PolicyMatchesReference ==
    /\ [](obs.handler = "should_show_donation_prompt" /\ obs.failed = "none"
            => (("donation_prompt" \in obs.sent)
                  <=> C6_Reference(first_use_date[obs.user],
                                   last_donation_prompt[obs.user], today)))
    /\ [][obs'.handler = "should_show_donation_prompt" => UNCHANGED db_vars]_vars

C6_Witness ==
    /\ obs.handler = "should_show_donation_prompt"
    /\ obs.user = 1
    /\ first_use_date[1] = 0 /\ last_donation_prompt[1] = 8 /\ today = 15
    /\ "donation_prompt" \in obs.sent

\* C7: any two donation prompts delivered to the same user are at least 7 days
\* apart.
C7_PromptsSevenDaysApart ==
    [][\A u \in Users :
          (obs'.handler = "send_daily_summary" /\ obs'.user = u
              /\ "donation_prompt" \in obs'.sent /\ obs'.failed # "send_prompt"
              /\ last_prompt_sent[u] # NULL)
          => today - last_prompt_sent[u] >= 7]_vars

\* C8: in a finished broadcast run every user of the grouped query got the
\* summary or no-entries message, unless the user's own iteration raised: a
\* failure for one user does not stop the loop.
C8_EveryUserProcessed ==
    (run.fetched /\ ~run.active)
    => \A i \in 1..Len(run.rows) : run.rows[i][1] \in run.served \cup run.faulted

C8_Witness ==
    /\ run.fetched /\ ~run.active
    /\ Len(run.rows) = 2
    /\ run.rows[1][1] \in run.faulted /\ run.rows[1][1] \notin run.served
    /\ run.rows[2][1] \in run.served /\ run.rows[2][1] \notin run.faulted
    /\ obs.sent = {"no_entries"}

\* C9: a finished broadcast run has sent the donation prompt to every user who
\* is eligible under the donation policy on that date.
C9_EligibleUsersPrompted ==
    (run.fetched /\ ~run.active /\ obs.handler \in {"send_daily_summary",
                                                    "send_daily_summary_begin"})
    => \A u \in Users :
          ShouldPrompt(first_use_date[u], last_donation_prompt[u], today)
          => u \in run.prompted

\* C11: after a language selection callback is handled, the user's session
\* state is Idle, whatever it was before.
C11_LanguageCallbackResetsToIdle ==
    obs.handler = "callback_language" => state[obs.user] = Idle

\* C12: after a language selection whose write succeeded, the language read
\* back is the selected one; selecting the stored language again changes
\* nothing; a user with no stored language reads as "en".
C12_LanguageUpsert ==
    /\ [](obs.handler = "callback_language" /\ obs.failed # "save_language"
            => get_user_language(obs.user) = obs.lang)
    /\ [](\A u \in Users : users[u] = NoRow => get_user_language(u) = "en")
    /\ [][(obs'.handler = "callback_language" /\ obs'.failed # "save_language"
              /\ users[obs'.user] = obs'.lang)
           => users' = users]_vars

C12_Witness ==
    /\ obs.handler = "callback_language"
    /\ obs.failed = "none"
    /\ obs.lang = "ru"
    /\ users[obs.user] = "ru"
    /\ get_user_language(obs.user) = "ru"

\* C13: a user with no row in users who sends a photo or a food text, when no
\* send and no analysis call raises, gets first_use_date recorded and ends in
\* awaiting_calories (from where a positive integer is saved as an entry).
C13_ImplicitUserCreation ==
    (/\ obs.handler \in {"handle_photo", "handle_food_text"}
     /\ users[obs.user] = NoRow
     /\ obs.failed \notin {"send", "analysis", "send2"})
    => (first_use_date[obs.user] # NULL /\ state[obs.user] = awaiting_calories)

\* C14: when writing the entry (of a positive value) fails in the calorie step,
\* the error is reported to the user, no entry is stored and the state after
\* the step is Idle.
C14_SaveFailureAbortsFlow ==
    [][(obs'.handler = "handle_calories" /\ obs'.calories > 0 /\ obs'.failed = "save")
       => (/\ "unexpected_error" \in obs'.sent
           /\ food_diary' = food_diary
           /\ state'[obs'.user] = Idle)]_vars

\* C15: whenever the calorie step has stored an entry (of a positive value),
\* the state after the step is Idle, also when the total could not be read or the reply not sent.
C15_SavedEntryEndsFlow ==
    [][(obs'.handler = "handle_calories" /\ obs'.calories > 0
            /\ food_diary' # food_diary)
       => state'[obs'.user] = Idle]_vars

\* C16: the broadcast job runs at most once on any date, also after main() has
\* been restarted.
C16_OneBroadcastPerDay == runs_today <= 1

\* C17: last_donation_prompt of a user changes only in a step of the broadcast
\* loop for that user in which the summary and the donation prompt were sent
\* and nothing raised; no conversation handler changes it.
C17_PromptDateOnlyAfterPrompt ==
    [][\A u \in Users :
          last_donation_prompt'[u] # last_donation_prompt[u]
          => (/\ run.active
              /\ obs'.handler = "send_daily_summary"
              /\ obs'.user = u
              /\ "donation_prompt" \in obs'.sent
              /\ obs'.failed = "none"
              /\ last_prompt_sent'[u] = today)]_vars

C17_Witness ==
    /\ obs.handler = "send_daily_summary"
    /\ obs.failed = "none"
    /\ "donation_prompt" \in obs.sent
    /\ today = 1
    /\ last_donation_prompt[obs.user] = today

\* C18: once first_use_date of a user is recorded, no later event (photo, food
\* text, on any date) and no broadcast run changes it.
C18_FirstUseSetOnce ==
    [][\A u \in Users :
          first_use_date[u] # NULL => first_use_date'[u] = first_use_date[u]]_vars

C18_Witness ==
    /\ obs.handler \in {"handle_photo", "handle_food_text", "handle_message"}
    /\ obs.analysis
    /\ obs.failed = "none"
    /\ today = 1
    /\ first_use_date[obs.user] = 0

\* C19: the events of one user are handled one after the other: a calorie
\* message is handled (and saved) only while the user's state is still
\* awaiting_calories, so two messages sent back to back are not both saved
\* for the same flow.
C19_SerialPerUser ==
    [][(obs'.handler = "handle_calories" /\ food_diary' # food_diary)
       => state[obs'.user] = awaiting_calories]_vars

\* C20: a text that is neither a command (no leading "/") nor a menu button,
\* received in Idle, is food iff it has more than one whitespace-delimited
\* token or contains a digit.  Food is processed in the same turn as a text
\* received in awaiting_food_text: awaiting_calories when nothing raises, Idle
\* and the error message otherwise.  Otherwise the menu is shown again, the
\* state stays Idle, the analysis is not called and nothing is written.  In
\* the other states the text goes to the state's handler unclassified.
C20_Food(text) ==
    Cardinality({i \in 1..Len(text) :
                    ~IsSpace(text[i]) /\ (i = 1 \/ IsSpace(text[i - 1]))}) > 1
    \/ \E i \in 1..Len(text) : text[i] \in Digits

C20_IdleTextClassified ==
    [][(obs'.handler \in TextHandlers /\ ~startswith_slash(obs'.text)
            /\ obs'.text \notin MenuButtons)
       => LET u == obs'.user
          IN IF state[u] = Idle
             THEN /\ obs'.handler = "handle_message"
                  /\ IF C20_Food(obs'.text)
                     THEN /\ obs'.failed = "none"
                             => (/\ state'[u] = awaiting_calories
                                 /\ obs'.analysis
                                 /\ obs'.sent = {"analyzing_text", "nutritional_values",
                                                 "save_calories"})
                          /\ obs'.failed # "none"
                             => (state'[u] = Idle /\ "error" \in obs'.sent)
                     ELSE /\ obs'.sent = {"welcome"}
                          /\ state'[u] = Idle
                          /\ ~obs'.analysis
                          /\ UNCHANGED db_vars
             ELSE /\ obs'.handler = (IF state[u] = awaiting_food_text
                                     THEN "handle_food_text" ELSE "handle_calories")
                  /\ "welcome" \notin obs'.sent
                  /\ (state[u] = awaiting_food_text /\ obs'.failed = "none")
                     => (obs'.analysis /\ state'[u] = awaiting_calories)]_vars

C20_Witness ==
    /\ obs.handler = "handle_message"
    /\ obs.text = <<"a", "5">>
    /\ obs.failed = "none"
    /\ obs.analysis
    /\ state[obs.user] = awaiting_calories

\* C21: from every session state the "add photo" button leads to Idle and the
\* "add as text" button to awaiting_food_text, also when the reply cannot be
\* sent; neither stores an entry nor calls the analysis.
C21_MenuLeavesFlow ==
    [][(obs'.handler \in TextHandlers
            /\ obs'.text \in {AddPhotoEn, AddPhotoRu, AddTextEn, AddTextRu})
       => (/\ obs'.handler = "handle_input_choice"
           /\ state'[obs'.user] = (IF obs'.text \in {AddPhotoEn, AddPhotoRu}
                                   THEN Idle ELSE awaiting_food_text)
           /\ UNCHANGED db_vars
           /\ ~obs'.analysis)]_vars

C21_Witness ==
    /\ obs.handler = "handle_input_choice"
    /\ obs.text = AddPhotoEn
    /\ obs.failed = "send"
    /\ state[obs.user] = Idle
    /\ first_use_date[obs.user] # NULL

\* C22: a /start or /language command, in any session state, changes neither
\* the session state nor any table; only the language menu is presented (and
\* the plain error text when that reply cannot be sent).
C22_CommandIsStateless ==
    [][(obs'.handler \in TextHandlers
            /\ obs'.text # <<>> /\ Head(obs'.text) = "/"
            /\ Tail(obs'.text) \in {<<"start">>, <<"language">>})
       => (/\ obs'.handler = "send_welcome"
           /\ state' = state
           /\ UNCHANGED db_vars
           /\ "choose_language" \in obs'.sent
           /\ obs'.sent \subseteq {"choose_language", "plain_error"}
           /\ ~obs'.analysis)]_vars

C22_Witness ==
    /\ obs.handler = "send_welcome"
    /\ obs.text = <<"/", "start">>
    /\ obs.sent = {"choose_language"}
    /\ state[obs.user] = awaiting_calories
    /\ users[obs.user] = "ru"

\* C23: a language lookup that raises aborts nothing: the step uses "en", and
\* for a user whose language is "en" (stored or by default) the step with the
\* lookup raising is exactly the step with the lookup working, in every
\* handler that reads the language and in the broadcast loop.
C23_Down(at) == [at |-> at, lang_down |-> TRUE]

C23_Up(at) == [at |-> at, lang_down |-> FALSE]

C23_DefaultLanguage(step_down, step_up) ==
    step_down => (/\ obs'.lang = "en"
                  /\ get_user_language(obs'.user) = "en" => step_up)

C23_LookupFailureUsesDefault ==
    [][/\ \A text \in TextsLang, at \in {"none", "analysis"} :
             /\ C23_DefaultLanguage(handle_message(1, text, C23_Down(at)),
                                    handle_message(1, text, C23_Up(at)))
             /\ C23_DefaultLanguage(handle_food_text(1, text, C23_Down(at)),
                                    handle_food_text(1, text, C23_Up(at)))
       /\ \A text \in TextsLang, at \in {"none", "send"} :
             C23_DefaultLanguage(handle_input_choice(1, text, C23_Down(at)),
                                 handle_input_choice(1, text, C23_Up(at)))
       /\ \A at \in {"none", "analysis"} :
             C23_DefaultLanguage(handle_photo(1, C23_Down(at)),
                                 handle_photo(1, C23_Up(at)))
       /\ \A text \in TextsLang, at \in {"none", "save"} :
             C23_DefaultLanguage(handle_calories(1, text, C23_Down(at)),
                                 handle_calories(1, text, C23_Up(at)))
       /\ \A at \in {"none", "send"} :
             C23_DefaultLanguage(send_daily_summary_user(C23_Down(at), FALSE),
                                 send_daily_summary_user(C23_Up(at), FALSE))]_vars

C23_Witness ==
    /\ obs.handler = "handle_calories"
    /\ users[obs.user] = "ru"
    /\ obs.lang = "en"
    /\ obs.failed = "none"
    /\ obs.sent = {"calories_added"}
    /\ state[obs.user] = Idle

\* C24: the "continue free" callback and every step of a broadcast run leave
\* the session state of every user unchanged, and the callback writes no
\* table: a user in awaiting_calories when the prompt arrives or is dismissed
\* is in awaiting_calories afterwards.
C24_PromptKeepsSessionState ==
    [][(obs'.handler \in {"handle_continue_free", "send_daily_summary_begin",
                          "send_daily_summary"})
       => (/\ state' = state
           /\ obs'.handler = "handle_continue_free" => UNCHANGED db_vars)]_vars

C24_Witness ==
    /\ obs.handler = "handle_continue_free"
    /\ state[obs.user] = awaiting_calories
    /\ last_prompt_sent[obs.user] = today

\* C25: when the grouped query raises at the start of a broadcast run, the
\* run sends nothing and changes no last_donation_prompt, and the exception
\* does not reach the scheduler loop: the job stays registered with a running
\* scheduler, so the runs of the later dates can start.
C25_FetchFailureIsContained ==
    /\ [](jobs >= 1)
    /\ [][(obs'.handler = "send_daily_summary_begin" /\ obs'.failed = "fetch")
          => (/\ obs'.sent = {}
              /\ ~run'.active /\ run'.served = {} /\ run'.prompted = {}
              /\ last_donation_prompt' = last_donation_prompt
              /\ last_prompt_sent' = last_prompt_sent
              /\ jobs' = jobs)]_vars

C25_Witness ==
    /\ obs.handler = "send_daily_summary_begin"
    /\ obs.failed = "fetch"
    /\ has_entry_today(1)
    /\ today = 1
    /\ runs_today = 1

====
